---------------------------- MODULE Spec2Model ----------------------------
(***************************************************************************)
(* kit-mcp: the sliding-window rate limiter (src/utils/rate-limiter.ts)    *)
(* and the response cache (src/utils/cache.ts).                            *)
(*                                                                         *)
(* Time is Date.now() in milliseconds.  Date.now() is unbounded and far    *)
(* from 0; the model reads the clock as Horizon and lets time pass in      *)
(* steps of TickMs by sliding the origin: every stored timestamp moves     *)
(* back by TickMs while the reading stays the same.  The code only ever    *)
(* compares a stored timestamp with the clock (now - timestamp, t < now),  *)
(* so the slide preserves its behaviour; a timestamp that has fallen out   *)
(* of every comparison the code makes with it (older than the window, a    *)
(* timer that is due, an expiry that has passed) is kept at a floor.       *)
(***************************************************************************)
EXTENDS Integers, Sequences, FiniteSets, Bags, TLC

\* ------------------------------------------------------------------ bounds
TickMs == 20000
MaxTicks == 3
MaxRpm == 2
MaxRecords == 2
MaxCount == 2
MaxAttempt == 6
NumCallers == 2
MaxGets == 3
MaxPending == 1
MaxParams == 2
MaxExecutes == 2
LongTickMs == 450000
Excess == 1

Horizon == MaxTicks * TickMs
Callers == 1..NumCallers

\* ------------------------------------------------------- program constants
\* rate-limiter.ts:25  const oneMinuteAgo = now - 60000
WindowMs == 60000
\* rate-limiter.ts:47  the wait used when the window is empty
EmptyWindowWaitMs == 1000

VARIABLES
  now,        \* Date.now()
  config,     \* RateLimiter.config: requestsPerMinute, retryDelay, maxRetryDelay
  requests,   \* RateLimiter.requests: sequence of [timestamp, count]
  pc,         \* per caller of waitForAvailability: "idle" (not in a call) or
              \* "sleeping" (inside the call, awaiting delay())
  wakeAt,     \* per caller: the time its setTimeout is due
  ret,        \* what the operation just executed returned
  closed,     \* environment: no new calls are issued any more
  history,    \* ghost: the records pushed during the last 60 s, whatever the
              \* code purged or kept
  cacheConfig, \* ApiCache.config: enabled, ttl (s), maxSize
  data,       \* NodeCache.data: key -> [v, t], t the expiry time, 0 for none
  stats,      \* ApiCache.stats: hits, misses
  pending,    \* the bag of getOrSet calls awaiting their fetchFunction: [key, ttl]
  live,       \* ghost: key -> [v, t] as last written by set / updateTTL and
              \* not removed by del, clear or invalidatePattern since
  found,      \* ghost: the get calls since construction or the last clear
              \* that met an unexpired entry (hits) and that met none (misses)
  audit,      \* the execute call of AccountAuditFunction in flight, if any
  remote,     \* environment: "up" when every read of the Kit API succeeds,
              \* "any" when each may succeed or fail, "top" when only the
              \* eight top-level reads may fail, "items" when only the
              \* per-item reads may fail, "absent" when the
              \* function was built without an API client
  callsLeft,  \* environment: the execute calls still to be issued
  heap,       \* the report objects built so far, by reference
  account,    \* environment: how many tags, sequences and forms the Kit
              \* account holds
  client      \* KitApiClient: per caller of makeRequest, where its request
              \* is ("none", "admitting" in the request interceptor, "sent"
              \* on the network); ghost: the times of the network calls
              \* issued during the last 60 s

\* the limiter's own state and the cache's own state; now and ret are shared
lvars == <<config, requests, pc, wakeAt, closed, history>>
cvars == <<cacheConfig, data, stats, pending, live, found>>
avars == <<audit, remote, callsLeft, heap, account, client>>
vars == <<now, ret, lvars, cvars, avars>>

NoRet == [op |-> "none"]

Min(a, b) == IF a < b THEN a ELSE b
Max(a, b) == IF a > b THEN a ELSE b

RECURSIVE Pow2(_)
Pow2(n) == IF n <= 0 THEN 1 ELSE 2 * Pow2(n - 1)

\* ------------------------------------------------------------ rate limiter

\* requests.reduce((sum, req) => sum + req.count, 0)
RECURSIVE SumCounts(_)
SumCounts(reqs) ==
  IF reqs = <<>> THEN 0 ELSE Head(reqs).count + SumCounts(Tail(reqs))

\* requests.filter(req => req.timestamp > oneMinuteAgo)
PurgeNothing(reqs, t) == reqs
PurgeInclusive(reqs, t) == SelectSeq(reqs, LAMBDA r : r.timestamp >= t - WindowMs)
Purge(reqs, t) == SelectSeq(reqs, LAMBDA r : r.timestamp > t - WindowMs)

\* requestsInLastMinute < this.config.requestsPerMinute
UnderLimitOrEqual(sum, rpm) == sum <= rpm
UnderLimit(sum, rpm) == sum < rpm

\* recordRequest: this.requests.push({timestamp: now, count})
PushRecordDropped(reqs, t, count) == reqs
PushRecord(reqs, t, count) == Append(reqs, [timestamp |-> t, count |-> count])

\* waitTime of waitForAvailability, after canMakeRequest purged the window
WaitTime(reqs, t) ==
  IF reqs # <<>> THEN WindowMs - (t - reqs[1].timestamp) ELSE EmptyWindowWaitMs

\* Math.min(waitTime, this.config.maxRetryDelay)
SleepMsNoCap(reqs, t, maxRetryDelay) == WaitTime(reqs, t)
SleepMs(reqs, t, maxRetryDelay) == Min(WaitTime(reqs, t), maxRetryDelay)

\* getBackoffDelay(attempt); jitterPct stands for Math.random() * 0.1 * 100,
\* a whole percentage 0..9 of exponentialDelay
BackoffDelayUnclamped(retryDelay, maxRetryDelay, attempt, jitterPct) ==
  LET exponentialDelay == retryDelay * Pow2(attempt - 1)
  IN  exponentialDelay + (jitterPct * exponentialDelay) \div 100
BackoffDelay(retryDelay, maxRetryDelay, attempt, jitterPct) ==
  LET exponentialDelay == retryDelay * Pow2(attempt - 1)
      jitter == (jitterPct * exponentialDelay) \div 100
  IN  Min(exponentialDelay + jitter, maxRetryDelay)

\* getStatus(): the three fields computed from the purged window
RemainingUnclamped(rpm, inLastMinute) == rpm - inLastMinute
Remaining(rpm, inLastMinute) == Max(0, rpm - inLastMinute)

ResetTime(reqs, t) == IF reqs # <<>> THEN reqs[1].timestamp + WindowMs ELSE t

Ghost(t, count, via) == [timestamp |-> t, count |-> count, via |-> via]

\* the state after new RateLimiter(config), for the configurations Configs,
\* constructed when the clock shows start
LimiterInitWith(Configs, start) ==
  /\ now = start
  /\ config \in Configs
  /\ requests = <<>>
  /\ pc = [p \in Callers |-> "idle"]
  /\ wakeAt = [p \in Callers |-> 0]
  /\ closed = FALSE
  /\ history = <<>>

InitWith(Configs, start) == LimiterInitWith(Configs, start) /\ ret = NoRet

\* no execute call in flight
NoAudit ==
  [pc |-> "idle", params |-> <<>>,
   status |-> [r \in {"account", "emailStats", "growthStats", "subscribers",
                      "tags", "sequences", "forms", "customFields"} |-> "pending"],
   value |-> [r \in {"account", "emailStats", "growthStats", "subscribers",
                     "tags", "sequences", "forms", "customFields"} |-> "none"],
   settledAs |-> [r \in {"account", "emailStats", "growthStats", "subscribers",
                         "tags", "sequences", "forms", "customFields"} |-> "pending"],
   i |-> 0, apiCalls |-> 0, calls |-> <<>>, lost |-> <<>>,
   usage |-> <<>>, perf |-> <<>>, conv |-> <<>>]

\* the state after new KitApiClient(authConfig): no request in flight
NoClient == [phase |-> [p \in Callers |-> "none"], sent |-> <<>>]

\* a Kit account with one tag, two sequences and one form
DefaultAccount == [tags |-> 1, sequences |-> 2, forms |-> 1]

\* the state after new AccountAuditFunction(apiClient, cache), in an
\* environment of Remotes that issues Calls execute calls
AuditInitFor(Remotes, Calls, Accounts) ==
  /\ audit = NoAudit
  /\ remote \in Remotes
  /\ callsLeft \in Calls
  /\ heap = <<>>
  /\ account \in Accounts
  /\ client = NoClient

AuditInitWith(Remotes, Calls) == AuditInitFor(Remotes, Calls, {DefaultAccount})

\* the state after new ApiCache(config), for the configurations Configs
CacheOnlyInitWith(Configs) ==
  /\ cacheConfig \in Configs
  /\ data = <<>>
  /\ stats = [hits |-> 0, misses |-> 0]
  /\ pending = EmptyBag
  /\ live = <<>>
  /\ found = [hits |-> 0, misses |-> 0]

\* the same, with no execute call to come
CacheInitWith(Configs) ==
  CacheOnlyInitWith(Configs) /\ AuditInitWith({"up"}, {0})

\* cache.ts:28-30  the defaults of new ApiCache()
DefaultCacheConfig == [enabled |-> TRUE, ttl |-> 300, maxSize |-> 1000]

RateInit ==
  /\ CacheInitWith({DefaultCacheConfig})
  /\ InitWith([requestsPerMinute : 0..MaxRpm,
               retryDelay : {1000},
               maxRetryDelay : {10000, 40000}], Horizon)

\* canMakeRequest()
CanMakeRequest ==
  /\ requests' = Purge(requests, now)
  /\ ret' = [op |-> "canMakeRequest",
             value |-> UnderLimit(SumCounts(requests'), config.requestsPerMinute)]
  /\ UNCHANGED <<now, config, pc, wakeAt, closed, history, cvars, avars>>

\* recordRequest(count) called directly
RecordRequest(count) ==
  /\ ~closed
  /\ Len(requests) < MaxRecords
  /\ requests' = PushRecord(requests, now, count)
  /\ history' = Append(history, Ghost(now, count, "record"))
  /\ ret' = NoRet
  /\ UNCHANGED <<now, config, pc, wakeAt, closed, cvars, avars>>

\* One run of the body of waitForAvailability() up to its return or its await:
\* canMakeRequest(), then either recordRequest() and return, or delay(...)
WaitBody(p) ==
  LET purged == Purge(requests, now) IN
  IF UnderLimit(SumCounts(purged), config.requestsPerMinute)
  THEN /\ requests' = PushRecord(purged, now, 1)
       /\ history' = Append(history, Ghost(now, 1, "wait"))
       /\ pc' = [pc EXCEPT ![p] = "idle"]
       /\ wakeAt' = [wakeAt EXCEPT ![p] = 0]
       /\ ret' = [op |-> "admit", caller |-> p, afterSleep |-> pc[p] = "sleeping"]
  ELSE /\ requests' = purged
       /\ ret' = [op |-> "sleep", caller |-> p,
                  ms |-> SleepMs(purged, now, config.maxRetryDelay)]
       /\ wakeAt' = [wakeAt EXCEPT ![p] = now + ret'.ms]
       /\ pc' = [pc EXCEPT ![p] = "sleeping"]
       /\ UNCHANGED history

\* a caller invokes waitForAvailability()
WaitForAvailability(p) ==
  /\ ~closed
  /\ pc[p] = "idle"
  /\ WaitBody(p)
  /\ UNCHANGED <<now, config, closed, cvars, avars>>

\* the setTimeout of delay() fires and the recursive call runs
TimerFiresNoRecheck(p) ==
  /\ pc[p] = "sleeping"
  /\ now >= wakeAt[p]
  /\ requests' = PushRecord(requests, now, 1)
  /\ history' = Append(history, Ghost(now, 1, "wait"))
  /\ pc' = [pc EXCEPT ![p] = "idle"]
  /\ wakeAt' = [wakeAt EXCEPT ![p] = 0]
  /\ ret' = [op |-> "admit", caller |-> p, afterSleep |-> TRUE]
  /\ UNCHANGED <<now, config, closed, cvars, avars>>
TimerFires(p) ==
  /\ pc[p] = "sleeping"
  /\ now >= wakeAt[p]
  /\ WaitBody(p)
  /\ UNCHANGED <<now, config, closed, cvars, avars>>

\* getStatus()
GetStatus ==
  /\ requests' = Purge(requests, now)
  /\ ret' = LET inLastMinute == SumCounts(requests') IN
            [op |-> "getStatus",
             requestsInLastMinute |-> inLastMinute,
             remainingRequests |-> Remaining(config.requestsPerMinute, inLastMinute),
             resetTime |-> ResetTime(requests', now)]
  /\ UNCHANGED <<now, config, pc, wakeAt, closed, history, cvars, avars>>

\* getBackoffDelay(attempt)
GetBackoffDelay(attempt, jitterPct) ==
  /\ ret' = [op |-> "getBackoffDelay", attempt |-> attempt, jitterPct |-> jitterPct,
             value |-> BackoffDelay(config.retryDelay, config.maxRetryDelay,
                                    attempt, jitterPct),
             prev |-> IF ret.op = "getBackoffDelay"
                      THEN <<[attempt |-> ret.attempt, jitterPct |-> ret.jitterPct,
                              value |-> ret.value]>>
                      ELSE <<>>]
  /\ UNCHANGED <<now, config, requests, pc, wakeAt, closed, history, cvars, avars>>

\* the environment stops issuing calls
Close ==
  /\ ~closed
  /\ closed' = TRUE
  /\ ret' = NoRet
  /\ UNCHANGED <<now, config, requests, pc, wakeAt, history, cvars, avars>>

\* ---------------------------------------------------------- response cache
\* Keys and patterns are strings, modelled as sequences of characters, so
\* that String.includes is the search for a contiguous subsequence.
Keys == {<<"u", "1">>, <<"o", "1">>}
Patterns == {<<"u">>, <<"1">>, <<"x">>}
Values == {"a", "b"}
Undefined == "undefined"
\* the ttl arguments in seconds; 0 also stands for an omitted ttl, which
\* `ttl || this.config.ttl` treats alike
TtlArgs == {0, 20}
Strategies == {"short", "medium", "long", "static"}

\* setWithStrategy: ttlMap
StrategyTtl(strategy) ==
  CASE strategy = "short" -> 300
    [] strategy = "medium" -> 900
    [] strategy = "long" -> 1800
    [] strategy = "static" -> 86400

Put(d, k, e) == [x \in DOMAIN d \cup {k} |-> IF x = k THEN e ELSE d[x]]
Remove(d, ks) == [x \in DOMAIN d \ ks |-> d[x]]

\* key.includes(pattern)
IncludesAtStart(k, pat) == Len(pat) <= Len(k) /\ SubSeq(k, 1, Len(pat)) = pat
Includes(k, pat) ==
  \E i \in 0..(Len(k) - Len(pat)) : SubSeq(k, i + 1, i + Len(pat)) = pat

\* node-cache _wrap: livetime = 0 when ttl is 0, else now + ttl * 1000
NcWrap(v, ttl, t) == [v |-> v, t |-> IF ttl = 0 THEN 0 ELSE t + ttl * 1000]

\* node-cache _check: data.t !== 0 && data.t < Date.now()
NcExpired(e, t) == e.t # 0 /\ e.t < t

\* node-cache get / has / getTtl / ttl: data[key]? and _check(key, data[key])
NcPresent(d, k, t) == k \in DOMAIN d /\ ~NcExpired(d[k], t)

\* node-cache _check with deleteOnExpire: the expired key is deleted
NcAfterCheck(d, k, t) ==
  IF k \in DOMAIN d /\ NcExpired(d[k], t) THEN Remove(d, {k}) ELSE d

\* node-cache set: maxKeys > -1 && stats.keys >= maxKeys throws ECACHEFULL
NcFullPastCap(d, maxKeys) == maxKeys > -1 /\ Cardinality(DOMAIN d) > maxKeys
NcFull(d, maxKeys) == maxKeys > -1 /\ Cardinality(DOMAIN d) >= maxKeys

\* node-cache _checkData: _check on every key
NcSweep(d, t) == Remove(d, {k \in DOMAIN d : NcExpired(d[k], t)})

\* ttl || this.config.ttl
EffectiveTtlIgnoresArg(ttl, cfgTtl) == cfgTtl
EffectiveTtl(ttl, cfgTtl) == IF ttl # 0 THEN ttl ELSE cfgTtl

\* getStats: Math.round(hitRate * 100) / 100, in hundredths of a percent
HitRateTruncated(hits, misses) ==
  IF hits + misses > 0 THEN (10000 * hits) \div (hits + misses) ELSE 0
HitRate(hits, misses) ==
  LET totalRequests == hits + misses IN
  IF totalRequests > 0
  THEN (2 * 10000 * hits + totalRequests) \div (2 * totalRequests)
  ELSE 0

\* ghost: the expiry a set or updateTTL with this ttl argument asks for
GhostExpiry(ttl) ==
  LET secs == IF ttl > 0 THEN ttl ELSE cacheConfig.ttl
  IN  IF secs = 0 THEN 0 ELSE now + 1000 * secs

\* ghost: key k has an entry that was not removed and has not expired
GhostVisible(k) == k \in DOMAIN live /\ (live[k].t = 0 \/ live[k].t >= now)

\* get(key): the value returned
GetValue(k) ==
  IF cacheConfig.enabled /\ NcPresent(data, k, now) THEN data[k].v ELSE Undefined

\* get(key): its effect on the store and the counters
GetEffect(k) ==
  IF ~cacheConfig.enabled
  THEN UNCHANGED <<data, stats, found>>
  ELSE /\ data' = NcAfterCheck(data, k, now)
       /\ stats' = IF GetValue(k) # Undefined
                   THEN [stats EXCEPT !.hits = @ + 1]
                   ELSE [stats EXCEPT !.misses = @ + 1]
       /\ found' = IF GhostVisible(k)
                   THEN [found EXCEPT !.hits = @ + 1]
                   ELSE [found EXCEPT !.misses = @ + 1]

\* set(key, value, ttl): "false" when disabled, "throws" when node-cache is
\* full, else "true"
SetOutcome(k, v, ttl) ==
  IF ~cacheConfig.enabled THEN "false"
  ELSE IF NcFull(data, cacheConfig.maxSize) THEN "throws"
  ELSE "true"

\* set(key, value, ttl): its effect on the store
SetEffect(k, v, ttl) ==
  IF SetOutcome(k, v, ttl) = "true"
  THEN /\ data' = Put(data, k, NcWrap(v, EffectiveTtl(ttl, cacheConfig.ttl), now))
       /\ live' = Put(live, k, [v |-> v, t |-> GhostExpiry(ttl)])
  ELSE UNCHANGED <<data, live>>

\* get(key)
Get(k) ==
  /\ found.hits + found.misses < MaxGets
  /\ GetEffect(k)
  /\ ret' = [op |-> "get", key |-> k, value |-> GetValue(k),
             stored |-> k \in DOMAIN data]
  /\ UNCHANGED <<now, avars, lvars, cacheConfig, pending, live>>

\* set(key, value, ttl)
SetIgnoringEnabled(k, v, ttl) ==
  /\ data' = Put(data, k, NcWrap(v, EffectiveTtl(ttl, cacheConfig.ttl), now))
  /\ live' = Put(live, k, [v |-> v, t |-> GhostExpiry(ttl)])
  /\ ret' = [op |-> "set", key |-> k, outcome |-> "true"]
  /\ UNCHANGED <<now, avars, lvars, cacheConfig, stats, pending, found>>
Set(k, v, ttl) ==
  /\ SetEffect(k, v, ttl)
  /\ ret' = [op |-> "set", key |-> k, outcome |-> SetOutcome(k, v, ttl)]
  /\ UNCHANGED <<now, avars, lvars, cacheConfig, stats, pending, found>>

\* setWithStrategy(key, value, strategy)
SetWithStrategy(k, v, strategy) ==
  /\ SetEffect(k, v, StrategyTtl(strategy))
  /\ ret' = [op |-> "setWithStrategy", key |-> k,
             outcome |-> SetOutcome(k, v, StrategyTtl(strategy))]
  /\ UNCHANGED <<now, avars, lvars, cacheConfig, stats, pending, found>>

\* del(key)
Del(k) ==
  /\ IF cacheConfig.enabled
     THEN /\ data' = Remove(data, {k})
          /\ live' = Remove(live, {k})
          /\ ret' = [op |-> "del", key |-> k,
                     value |-> IF k \in DOMAIN data THEN 1 ELSE 0]
     ELSE /\ ret' = [op |-> "del", key |-> k, value |-> 0]
          /\ UNCHANGED <<data, live>>
  /\ UNCHANGED <<now, avars, lvars, cacheConfig, stats, pending, found>>

\* clear()
Clear ==
  /\ data' = <<>>
  /\ stats' = [hits |-> 0, misses |-> 0]
  /\ live' = <<>>
  /\ found' = [hits |-> 0, misses |-> 0]
  /\ ret' = [op |-> "clear"]
  /\ UNCHANGED <<now, avars, lvars, cacheConfig, pending>>

\* has(key)
Has(k) ==
  /\ IF cacheConfig.enabled
     THEN /\ data' = NcAfterCheck(data, k, now)
          /\ ret' = [op |-> "has", key |-> k, value |-> NcPresent(data, k, now)]
     ELSE /\ ret' = [op |-> "has", key |-> k, value |-> FALSE]
          /\ UNCHANGED data
  /\ UNCHANGED <<now, avars, lvars, cacheConfig, stats, pending, live, found>>

\* getStats()
GetStats ==
  /\ ret' = [op |-> "getStats", keys |-> Cardinality(DOMAIN data),
             hits |-> stats.hits, misses |-> stats.misses,
             hitRate |-> HitRate(stats.hits, stats.misses)]
  /\ UNCHANGED <<now, avars, lvars, cvars>>

\* getTTL(key): defined is FALSE for undefined
GetTTL(k) ==
  /\ IF cacheConfig.enabled
     THEN /\ data' = NcAfterCheck(data, k, now)
          /\ ret' = IF NcPresent(data, k, now)
                    THEN [op |-> "getTTL", key |-> k, defined |-> TRUE,
                          value |-> data[k].t]
                    ELSE [op |-> "getTTL", key |-> k, defined |-> FALSE, value |-> 0]
     ELSE /\ ret' = [op |-> "getTTL", key |-> k, defined |-> FALSE, value |-> 0]
          /\ UNCHANGED data
  /\ UNCHANGED <<now, avars, lvars, cacheConfig, stats, pending, live, found>>

\* updateTTL(key, ttl); node-cache ttl(): ttl or= stdTTL
UpdateTTL(k, ttl) ==
  /\ IF cacheConfig.enabled
     THEN IF NcPresent(data, k, now)
          THEN /\ data' = [data EXCEPT ![k] =
                             NcWrap(@.v, EffectiveTtl(ttl, cacheConfig.ttl), now)]
               /\ live' = IF k \in DOMAIN live
                          THEN [live EXCEPT ![k].t = GhostExpiry(ttl)]
                          ELSE live
               /\ ret' = [op |-> "updateTTL", key |-> k, value |-> TRUE]
          ELSE /\ data' = NcAfterCheck(data, k, now)
               /\ ret' = [op |-> "updateTTL", key |-> k, value |-> FALSE]
               /\ UNCHANGED live
     ELSE /\ ret' = [op |-> "updateTTL", key |-> k, value |-> FALSE]
          /\ UNCHANGED <<data, live>>
  /\ UNCHANGED <<now, avars, lvars, cacheConfig, stats, pending, found>>

\* invalidatePattern(pattern)
InvalidatePattern(pat) ==
  LET matchingKeys == {k \in DOMAIN data : Includes(k, pat)} IN
  /\ data' = Remove(data, matchingKeys)
  /\ live' = Remove(live, {k \in DOMAIN live : Includes(k, pat)})
  /\ ret' = [op |-> "invalidatePattern", pattern |-> pat,
             value |-> Cardinality(matchingKeys)]
  /\ UNCHANGED <<now, avars, lvars, cacheConfig, stats, pending, found>>

\* getOrSet(key, fetchFunction, ttl) up to its return or its await
GetOrSet(k, ttl) ==
  /\ found.hits + found.misses < MaxGets
  /\ BagCardinality(pending) < MaxPending
  /\ GetEffect(k)
  /\ IF GetValue(k) # Undefined
     THEN /\ ret' = [op |-> "getOrSet", key |-> k, value |-> GetValue(k),
                     fetched |-> FALSE, outcome |-> "none"]
          /\ UNCHANGED pending
     ELSE /\ ret' = [op |-> "get", key |-> k, value |-> Undefined,
                     stored |-> k \in DOMAIN data]
          /\ pending' = pending (+) SetToBag({[key |-> k, ttl |-> ttl]})
  /\ UNCHANGED <<now, avars, lvars, cacheConfig, live>>

\* the calls a getOrSet can be awaiting
Calls == [key : Keys, ttl : TtlArgs]

\* the fetchFunction of a pending getOrSet resolves with v: set, then return
FetchResolves(f, v) ==
  /\ BagIn(f, pending)
  /\ SetEffect(f.key, v, f.ttl)
  /\ ret' = [op |-> "getOrSet", key |-> f.key, value |-> v,
             fetched |-> TRUE, outcome |-> SetOutcome(f.key, v, f.ttl)]
  /\ pending' = pending (-) SetToBag({f})
  /\ UNCHANGED <<now, avars, lvars, cacheConfig, stats, found>>

\* the fetchFunction of a pending getOrSet rejects: getOrSet rejects with it
FetchRejects(f) ==
  /\ BagIn(f, pending)
  /\ ret' = [op |-> "fetchRejected", key |-> f.key]
  /\ pending' = pending (-) SetToBag({f})
  /\ UNCHANGED <<now, avars, lvars, cacheConfig, data, stats, live, found>>

\* node-cache's periodic _checkData (checkperiod)
Sweep ==
  /\ data' = NcSweep(data, now)
  /\ ret' = NoRet
  /\ UNCHANGED <<now, avars, lvars, cacheConfig, stats, pending, live, found>>

\* ------------------------------------------------------ ApiCache.generateKey
\* Strings are sequences of characters.  A params object is the sequence of
\* its entries [name, value] in insertion order, the names distinct.
ParamNames == {<<"a">>, <<"b">>, <<"a", "b">>}
Prefixes == {<<"p">>, <<"q">>}

Num(n) == [kind |-> "number", n |-> n, s |-> <<>>]
Str(s) == [kind |-> "string", n |-> 0, s |-> s]
JsNull == [kind |-> "null", n |-> 0, s |-> <<>>]
JsNaN == [kind |-> "NaN", n |-> 0, s |-> <<>>]
JsTrue == [kind |-> "boolean", n |-> 1, s |-> <<>>]
JsValues == {Num(12), Str(<<"1", "2">>), JsNull, JsNaN, JsTrue}

Range(f) == {f[i] : i \in DOMAIN f}

ParamObjects ==
  UNION {{q \in [1..k -> [name : ParamNames, value : JsValues]] :
            \A i, j \in 1..k : i # j => q[i].name # q[j].name} : k \in 0..MaxParams}

\* the UTF-16 code unit of a character
CharCode(c) ==
  CASE c = "a" -> 97
    [] c = "b" -> 98
    [] c = "d" -> 100
    [] c = "i" -> 105

\* the default comparison of Array.prototype.sort: by code units, a proper
\* prefix first
RECURSIVE LexLess(_, _)
LexLess(x, y) ==
  IF y = <<>> THEN FALSE
  ELSE IF x = <<>> THEN TRUE
  ELSE IF CharCode(Head(x)) # CharCode(Head(y))
       THEN CharCode(Head(x)) < CharCode(Head(y))
       ELSE LexLess(Tail(x), Tail(y))

RECURSIVE InsertSorted(_, _)
InsertSorted(x, sorted) ==
  IF sorted = <<>> THEN <<x>>
  ELSE IF LexLess(x, Head(sorted)) THEN <<x>> \o sorted
  ELSE <<Head(sorted)>> \o InsertSorted(x, Tail(sorted))

\* Object.keys(params).sort()
SortKeysKeepingOrder(names) == names
RECURSIVE SortKeys(_)
SortKeys(names) ==
  IF names = <<>> THEN <<>>
  ELSE InsertSorted(Head(names), SortKeys(Tail(names)))

DigitChar(d) ==
  CASE d = 0 -> "0" [] d = 1 -> "1" [] d = 2 -> "2" [] d = 3 -> "3"
    [] d = 4 -> "4" [] d = 5 -> "5" [] d = 6 -> "6" [] d = 7 -> "7"
    [] d = 8 -> "8" [] d = 9 -> "9"

RECURSIVE Digits(_)
Digits(n) == IF n < 10 THEN <<DigitChar(n)>>
             ELSE Digits(n \div 10) \o <<DigitChar(n % 10)>>

\* JSON.stringify(value) for the values above (their strings need no escape)
JsonStringify(v) ==
  CASE v.kind = "number" -> Digits(v.n)
    [] v.kind = "string" -> <<"\"">> \o v.s \o <<"\"">>
    [] v.kind = "null" -> <<"n", "u", "l", "l">>
    [] v.kind = "NaN" -> <<"n", "u", "l", "l">>
    [] v.kind = "boolean" -> IF v.n = 1 THEN <<"t", "r", "u", "e">>
                             ELSE <<"f", "a", "l", "s", "e">>

\* params[key]
Lookup(params, name) == (CHOOSE e \in Range(params) : e.name = name).value

\* Array.prototype.join
RECURSIVE Join(_, _)
Join(parts, sep) ==
  IF parts = <<>> THEN <<>>
  ELSE IF Len(parts) = 1 THEN parts[1]
  ELSE parts[1] \o sep \o Join(Tail(parts), sep)

\* generateKey(prefix, params)
GenerateKeyOf(prefix, params) ==
  LET keys == SortKeys([i \in DOMAIN params |-> params[i].name])
      sortedParams ==
        Join([i \in DOMAIN keys |->
                keys[i] \o <<":">> \o JsonStringify(Lookup(params, keys[i]))],
             <<"|">>)
  IN  IF sortedParams # <<>> THEN prefix \o <<":">> \o sortedParams ELSE prefix

\* the calls generateKey(prefix) and generateKey(prefix, params); params = {}
\* is the default of an omitted argument
KeyCalls ==
  {c \in [op : {"call generateKey"}, prefix : Prefixes, given : BOOLEAN,
          params : ParamObjects] : c.given \/ c.params = <<>>}

\* the call held in ret returns
GenerateKey ==
  /\ ret.op = "call generateKey"
  /\ ret' = [op |-> "generateKey", prefix |-> ret.prefix, given |-> ret.given,
             params |-> ret.params,
             value |-> GenerateKeyOf(ret.prefix, ret.params)]
  /\ UNCHANGED <<now, avars, lvars, cvars>>

\* ---------------------------------------------- AccountAuditFunction scores
\* the characters of a string literal
Welcome == <<"w", "e", "l", "c", "o", "m", "e">>
Nurture == <<"n", "u", "r", "t", "u", "r", "e">>
WelcomeSeries == <<"W">> \o Tail(Welcome) \o <<" ", "S", "e", "r", "i", "e", "s">>

\* a sequence of the Kit API as the audit reads it: named is FALSE when the
\* response carries no name; repeat absent reads as false
SequenceNames ==
  {Welcome, Nurture, WelcomeSeries, <<>>, <<"x">>,
   Welcome \o <<" ">> \o Nurture, Nurture \o <<" ">> \o Welcome,
   <<"W">> \o Tail(Welcome), <<"N">> \o Tail(Nurture),
   SubSeq(Welcome, 1, 6), <<"r", "e", "-">> \o Nurture,
   <<"m", "y", " ">> \o Welcome \o <<"!">>}

KitSequence(id, named, name, hold, repeat) ==
  [id |-> id, named |-> named, name |-> name, hold |-> hold, repeat |-> repeat]

ScoreCalls ==
  {[op |-> "call calculateOptimizationScore",
    sequence |-> KitSequence(1, TRUE, n, h, r)] :
      n \in SequenceNames, h \in BOOLEAN, r \in BOOLEAN}
  \cup {[op |-> "call calculateOptimizationScore",
         sequence |-> KitSequence(1, FALSE, <<>>, h, r)] :
          h \in BOOLEAN, r \in BOOLEAN}

\* calculateOptimizationScore(sequence); sequence.name.includes throws a
\* TypeError when the name is undefined
OptimizationScoreThrows(sequence) == ~sequence.named
OptimizationScore(sequence) ==
  LET base == 50
      s1 == IF Includes(sequence.name, Welcome) THEN base + 10 ELSE base
      s2 == IF Includes(sequence.name, Nurture) THEN s1 + 10 ELSE s1
      s3 == IF ~sequence.hold THEN s2 + 20 ELSE s2
      s4 == IF sequence.repeat THEN s3 + 10 ELSE s3
  IN  Min(100, s4)

\* the call held in ret returns or throws
CalculateOptimizationScore ==
  /\ ret.op = "call calculateOptimizationScore"
  /\ ret' = IF OptimizationScoreThrows(ret.sequence)
            THEN [op |-> "calculateOptimizationScore", sequence |-> ret.sequence,
                  outcome |-> "throws", value |-> 0]
            ELSE [op |-> "calculateOptimizationScore", sequence |-> ret.sequence,
                  outcome |-> "returns",
                  value |-> OptimizationScore(ret.sequence)]
  /\ UNCHANGED <<now, avars, lvars, cvars>>

\* ------------------------------------------- AccountAuditFunction.execute
\* the eight reads of the fan-out
Reads == {"account", "emailStats", "growthStats", "subscribers", "tags",
          "sequences", "forms", "customFields"}

AuditPrefix ==
  <<"a", "c", "c", "o", "u", "n", "t", "_", "a", "u", "d", "i", "t">>
IncludePerformance ==
  <<"i", "n", "c", "l", "u", "d", "e", "_", "p", "e", "r", "f", "o", "r",
    "m", "a", "n", "c", "e">>
JsFalse == [kind |-> "boolean", n |-> 0, s |-> <<>>]

\* execute(), execute({include_performance: false}) and
\* execute({include_performance: true})
AuditParams ==
  {<<>>, <<[name |-> IncludePerformance, value |-> JsFalse]>>,
   <<[name |-> IncludePerformance, value |-> JsTrue]>>}

\* params.include_performance, as a condition
WantsPerformance(params) ==
  \E e \in Range(params) : e.name = IncludePerformance /\ e.value = JsTrue

\* What a read that succeeds returns: "ok" is a response with every field,
\* "nameless" one whose items carry no name.
ReadValues(r) ==
  IF r \in {"tags", "customFields"} THEN {"ok", "nameless"} ELSE {"ok"}

\* settled results as execute sees them: getResult(...) is null unless the
\* read was fulfilled
Fulfilled(a, r) == a.status[r] = "fulfilled"

\* subscribersData?.pagination?.total_count || ...length || 0
TotalSubscribers(a) == IF Fulfilled(a, "subscribers") THEN 5 ELSE 0

\* growthStats.growth_rate || 0
GrowthRate(a) == IF Fulfilled(a, "growthStats") THEN 2 ELSE 0

\* the id of the item the remote lists at position i: not in ascending order
ItemId(i) == (7 * i) % 23

\* (tagsData || { tags: [] }).tags
TagsOf(a) ==
  IF Fulfilled(a, "tags")
  THEN [i \in 1..account.tags |->
          [id |-> ItemId(i), named |-> a.value["tags"] = "ok",
           name |-> <<"v", "i", "p">>, recent |-> TRUE]]
  ELSE <<>>

\* (sequencesData || { sequences: [] }).sequences; every third sequence,
\* from the second on, is on hold
SequencesOf(a) ==
  IF Fulfilled(a, "sequences")
  THEN [i \in 1..account.sequences |->
          KitSequence(ItemId(i), TRUE,
                      IF i % 2 = 1 THEN WelcomeSeries ELSE Nurture,
                      i % 3 = 2, FALSE)]
  ELSE <<>>

\* (formsData || { forms: [] }).forms
FormsOf(a) ==
  IF Fulfilled(a, "forms")
  THEN [i \in 1..account.forms |-> [id |-> ItemId(i), conversion_rate |-> 3]]
  ELSE <<>>

\* customFieldsData?.custom_fields || []
FieldsOf(a) ==
  IF Fulfilled(a, "customFields")
  THEN <<[id |-> 1, named |-> a.value["customFields"] = "ok",
          name |-> <<"n", "a", "m", "e">>, key |-> <<"k">>, type |-> "text"]>>
  ELSE <<>>

\* the fan-out limits: tags.slice(0, 20), slice(0, 10), slice(0, 10)
TagLimit == 20
SequenceLimit == 10
FormLimit == 10

\* sequences.filter(seq => !seq.hold)
ActiveSequences(a) == SelectSeq(SequencesOf(a), LAMBDA q : ~q.hold)

\* the items a stage reads one by one
StageItemsUnlimited(a, stage) ==
  CASE stage = "tagRead" -> TagsOf(a)
    [] stage = "seqRead" -> ActiveSequences(a)
    [] stage = "formRead" -> FormsOf(a)
StageItems(a, stage) ==
  CASE stage = "tagRead" -> SubSeq(TagsOf(a), 1, Min(TagLimit, Len(TagsOf(a))))
    [] stage = "seqRead" ->
         SubSeq(ActiveSequences(a), 1, Min(SequenceLimit, Len(ActiveSequences(a))))
    [] stage = "formRead" -> SubSeq(FormsOf(a), 1, Min(FormLimit, Len(FormsOf(a))))

\* calculateListHealthScore(stats); `|| 1` and `|| 0` replace a missing or
\* zero field; the quotients are exact for the values the model uses
ListHealthScore(total_subscribers, active_subscribers, bounced, complained) ==
  LET total == IF total_subscribers # 0 THEN total_subscribers ELSE 1
  IN  Max(0, Min(100, (active_subscribers * 100) \div total
                      - ((bounced + complained) * 50) \div total))

\* assessBehavioralTracking(tags), for tags that all carry a name
BehavioralKeywords ==
  {<<"c", "l", "i", "c", "k", "e", "d">>, <<"o", "p", "e", "n", "e", "d">>,
   <<"p", "u", "r", "c", "h", "a", "s", "e", "d">>,
   <<"e", "n", "g", "a", "g", "e", "d">>, <<"v", "i", "s", "i", "t", "e", "d">>}

AssessBehavioralTracking(tags) ==
  LET behavioralTags ==
        SelectSeq(tags, LAMBDA t : \E w \in BehavioralKeywords : Includes(t.name, w))
  IN  IF Len(behavioralTags) >= 5 THEN "Advanced"
      ELSE IF Len(behavioralTags) >= 2 THEN "Basic" ELSE "None"

\* calculateSubscriberQualityScore(form)
SubscriberQualityScore(form) ==
  IF form.conversion_rate # 0 THEN Min(100, form.conversion_rate * 10) ELSE 50

\* calculateDataQualityScore(field), for a field that carries a name
DataQualityScore(field) ==
  LET s1 == IF Len(field.name) > 3 THEN 50 + 20 ELSE 50
      s2 == IF Len(field.key) > 0 THEN s1 + 20 ELSE s1
      s3 == IF field.type = "text" THEN s2 + 10 ELSE s2
  IN  Min(100, s3)

\* assessPersonalizationOpportunity(field), for lower-case names
PersonalizationOpportunity(field) ==
  IF Includes(field.name, <<"n", "a", "m", "e">>) THEN "High - personalization"
  ELSE IF Includes(field.name, <<"l", "o", "c", "a", "t", "i", "o", "n">>)
          \/ Includes(field.name, <<"s", "t", "a", "t", "e">>)
       THEN "Medium - geographic"
  ELSE IF Includes(field.name, <<"s", "p", "e", "c", "i", "a", "l", "t", "y">>)
          \/ Includes(field.name, <<"i", "n", "d", "u", "s", "t", "r", "y">>)
       THEN "High - segmentation"
  ELSE "Low - general"

\* tags.tags?.length < 5
FewTagsOrFive(n) == n <= 5
FewTags(n) == n < 5

\* generateRecommendations(stats, tags, sequences, forms); stats holds
\* emailStats and growthStats only, so its list health score is 0
Recommendations(a) ==
  (IF ListHealthScore(0, 0, 0, 0) < 70 THEN <<"re-engagement">> ELSE <<>>)
  \o (IF FewTags(Len(TagsOf(a))) THEN <<"segmentation">> ELSE <<>>)
  \o (IF Len(ActiveSequences(a)) < 3 THEN <<"automation">> ELSE <<>>)
  \o (IF Len(FormsOf(a)) < 2 THEN <<"lead capture">> ELSE <<>>)
  \o <<"brand consistency", "segment tracking">>

\* the audit of lines 76-91, from the settled reads and the per-item reads
BuildReport(a) ==
  [account_summary |->
     [total_subscribers |-> TotalSubscribers(a),
      active_subscribers |-> TotalSubscribers(a),
      unsubscribed_count |-> 0,
      growth_rate_30d |-> GrowthRate(a),
      list_health_score |->
        ListHealthScore(TotalSubscribers(a), TotalSubscribers(a), 0, 0)],
   segmentation_analysis |->
     [total_tags |-> Len(TagsOf(a)),
      active_segments |-> SelectSeq(TagsOf(a), LAMBDA t : t.recent),
      tag_usage_distribution |-> a.usage,
      behavioral_tracking_status |-> AssessBehavioralTracking(TagsOf(a))],
   automation_overview |->
     [total_sequences |-> Len(SequencesOf(a)),
      active_sequences |-> ActiveSequences(a),
      total_automations |-> Len(SequencesOf(a)),
      active_automations |-> ActiveSequences(a),
      automation_performance |-> a.perf],
   lead_capture_analysis |->
     [total_forms |-> Len(FormsOf(a)),
      form_performance |-> <<>>,
      conversion_rates |-> a.conv],
   custom_fields_usage |->
     [i \in DOMAIN FieldsOf(a) |->
        [field |-> FieldsOf(a)[i].id, usage_percentage |-> 0,
         data_quality_score |-> DataQualityScore(FieldsOf(a)[i]),
         personalization_opportunity |->
           PersonalizationOpportunity(FieldsOf(a)[i])]],
   strategic_recommendations |-> Recommendations(a)]

\* a reference to a report object not yet in the heap
NewRef(h) == ToString(Cardinality(DOMAIN h) + 1)

\* `if (cached)`: a cached value counts unless it is falsy
Truthy(v) == v # Undefined /\ v # ""

\* execute suspends at an await
Suspend(a) ==
  /\ audit' = a
  /\ ret' = NoRet
  /\ UNCHANGED <<data, live, heap>>

\* the catch of lines 98-101: the error is wrapped and thrown; reads and
\* values record how the eight reads of the call had settled, calls the
\* per-item reads it issued and lost those of them that were rejected
Reject(a, cause) ==
  /\ audit' = NoAudit
  /\ ret' = [op |-> "execute", outcome |-> "rejected",
             message |-> <<"Failed to generate account audit", cause>>,
             apiCalls |-> a.apiCalls, reads |-> a.status, values |-> a.value,
             settledAs |-> a.settledAs, calls |-> a.calls, lost |-> a.lost]
  /\ UNCHANGED <<data, live, heap>>

\* lines 76-96: the report object is complete, is handed to the cache (which
\* keeps the reference: useClones is false) and is returned
Finish(a) ==
  LET report == BuildReport(a)
      cacheKey == GenerateKeyOf(AuditPrefix, a.params)
      ref == NewRef(heap)
  IN  IF \E i \in DOMAIN FieldsOf(a) : ~FieldsOf(a)[i].named
      THEN Reject(a, "TypeError")
      ELSE IF SetOutcome(cacheKey, ref, StrategyTtl("medium")) = "throws"
      THEN Reject(a, "ECACHEFULL")
      ELSE /\ SetEffect(cacheKey, ref, StrategyTtl("medium"))
           /\ heap' = Put(heap, ref, report)
           /\ audit' = NoAudit
           /\ ret' = [op |-> "execute", outcome |-> "resolved", cached |-> FALSE,
                      key |-> cacheKey, value |-> ref, apiCalls |-> a.apiCalls,
                      reads |-> a.status, values |-> a.value,
                      settledAs |-> a.settledAs, calls |-> a.calls,
                      lost |-> a.lost]

\* a stage of per-item reads starts with its first read, or is skipped
StartForms(a) ==
  IF StageItems(a, "formRead") # <<>>
  THEN Suspend([a EXCEPT !.pc = "formRead", !.i = 1, !.apiCalls = @ + 1,
                         !.calls = Append(@, [read |-> "formRead",
                                              id |-> StageItems(a, "formRead")[1].id])])
  ELSE Finish(a)

StartSequences(a) ==
  IF StageItems(a, "seqRead") # <<>>
  THEN Suspend([a EXCEPT !.pc = "seqRead", !.i = 1, !.apiCalls = @ + 1,
                         !.calls = Append(@, [read |-> "seqRead",
                                              id |-> StageItems(a, "seqRead")[1].id])])
  ELSE StartForms(a)

\* lines 157-162: assessBehavioralTracking throws on a tag without a name
AfterTags(a) ==
  IF \E i \in DOMAIN TagsOf(a) : ~TagsOf(a)[i].named
  THEN Reject(a, "TypeError")
  ELSE StartSequences(a)

StartTags(a) ==
  IF StageItems(a, "tagRead") # <<>>
  THEN Suspend([a EXCEPT !.pc = "tagRead", !.i = 1, !.apiCalls = @ + 1,
                         !.calls = Append(@, [read |-> "tagRead",
                                              id |-> StageItems(a, "tagRead")[1].id])])
  ELSE AfterTags(a)

\* Promise.allSettled: every read has settled
BarrierFailFast(status) ==
  (\A r \in Reads : status[r] = "fulfilled") \/ (\E r \in Reads : status[r] = "rejected")
Barrier(status) == \A r \in Reads : status[r] # "pending"

\* execute(params) up to its return, its throw or its first await
TryCacheAlways(params) == TRUE
TryCacheOnlyWhenFalse(params) ==
  \E e \in Range(params) : e.name = IncludePerformance /\ e.value = JsFalse
TryCache(params) == ~WantsPerformance(params)
Execute(params) ==
  LET cacheKey == GenerateKeyOf(AuditPrefix, params) IN
  /\ audit.pc = "idle"
  /\ callsLeft > 0
  /\ callsLeft' = callsLeft - 1
  /\ IF TryCache(params) THEN GetEffect(cacheKey)
     ELSE UNCHANGED <<data, stats, found>>
  /\ IF TryCache(params) /\ Truthy(GetValue(cacheKey))
     THEN /\ audit' = NoAudit
          /\ ret' = [op |-> "execute", outcome |-> "resolved", cached |-> TRUE,
                     key |-> cacheKey, value |-> GetValue(cacheKey),
                     apiCalls |-> 0]
     ELSE IF remote = "absent"
     THEN /\ audit' = NoAudit
          /\ ret' = [op |-> "execute", outcome |-> "rejected",
                     message |-> <<"Failed to generate account audit", "TypeError">>,
                     apiCalls |-> 0]
     ELSE /\ audit' = [NoAudit EXCEPT !.pc = "reading", !.params = params,
                                      !.apiCalls = Cardinality(Reads)]
          /\ ret' = NoRet
  /\ UNCHANGED <<now, lvars, cacheConfig, pending, live, remote, heap, account, client>>

\* lines 42-60: the result of the promise at position k of the array handed
\* to Promise.allSettled is bound to the k-th name of the destructuring
ReadOrder ==
  <<"account", "emailStats", "growthStats", "subscribers", "tags",
    "sequences", "forms", "customFields">>
PositionOf(r) == CHOOSE k \in DOMAIN ReadOrder : ReadOrder[k] = r
SlotByCompletion(a, r) ==
  ReadOrder[Cardinality({q \in Reads : a.settledAs[q] # "pending"}) + 1]
SlotOf(a, r) == ReadOrder[PositionOf(r)]

\* one of the eight reads settles; the last one to settle resumes execute
Settle(r, outcome, v) ==
  /\ audit.pc = "reading"
  /\ audit.settledAs[r] = "pending"
  /\ remote \in {"up", "items"} => outcome = "fulfilled" /\ v = "ok"
  /\ IF outcome = "fulfilled" THEN v \in ReadValues(r) ELSE v = "none"
  /\ LET a == [audit EXCEPT !.settledAs[r] = IF outcome = "fulfilled" THEN v
                                             ELSE "rejected",
                            !.status[SlotOf(audit, r)] = outcome,
                            !.value[SlotOf(audit, r)] = v]
     IN  IF Barrier(a.status) THEN StartTags(a) ELSE Suspend(a)
  /\ UNCHANGED <<now, lvars, cacheConfig, stats, pending, found, remote, callsLeft, account, client>>

\* the per-item read execute awaits settles: lines 136-155, 172-206, 221-232
SubReadSettles(outcome) ==
  /\ audit.pc \in {"tagRead", "seqRead", "formRead"}
  /\ remote \in {"up", "top"} => outcome = "fulfilled"
  /\ LET items == StageItems(audit, audit.pc)
         item == items[audit.i]
         a == IF outcome = "rejected"
              THEN [audit EXCEPT !.lost =
                      Append(@, [read |-> audit.pc, id |-> item.id])]
              ELSE IF audit.pc = "tagRead"
              THEN [audit EXCEPT !.usage =
                      Append(@, [tag |-> item.id, subscriber_count |-> 7])]
              ELSE IF audit.pc = "seqRead"
              THEN IF OptimizationScoreThrows(item) THEN audit
                   ELSE [audit EXCEPT !.perf =
                           Append(@, [id |-> item.id, subscriber_count |-> 7,
                                      optimization_score |-> OptimizationScore(item)])]
              ELSE [audit EXCEPT !.conv =
                      Append(@, [form_id |-> item.id,
                                 conversion_rate |-> item.conversion_rate,
                                 subscriber_quality_score |->
                                   SubscriberQualityScore(item)])]
     IN  IF audit.i < Len(items)
         THEN Suspend([a EXCEPT !.i = @ + 1, !.apiCalls = @ + 1,
                                !.calls = Append(@, [read |-> audit.pc,
                                                     id |-> items[audit.i + 1].id])])
         ELSE IF audit.pc = "tagRead" THEN AfterTags(a)
         ELSE IF audit.pc = "seqRead" THEN StartForms(a)
         ELSE Finish(a)
  /\ UNCHANGED <<now, lvars, cacheConfig, stats, pending, found, remote, callsLeft, account, client>>

\* the clock advances by LongTickMs, more than the limiter's window
SlideExpiryBy(t, c, d) == IF t = 0 THEN 0 ELSE IF t - d >= c THEN t - d ELSE 1
LongTick ==
  /\ ret' = NoRet
  /\ now' = now
  /\ requests' = [i \in DOMAIN requests |-> [requests[i] EXCEPT !.timestamp = 0]]
  /\ wakeAt' = [p \in Callers |-> 0]
  /\ history' = <<>>
  /\ data' = [k \in DOMAIN data |->
                [data[k] EXCEPT !.t = SlideExpiryBy(@, now, LongTickMs)]]
  /\ live' = [k \in DOMAIN live |->
                [live[k] EXCEPT !.t = SlideExpiryBy(@, now, LongTickMs)]]
  /\ client' = [client EXCEPT !.sent = <<>>]
  /\ UNCHANGED <<config, pc, closed, cacheConfig, stats, pending, found,
                 audit, remote, callsLeft, heap, account>>

\* a timestamp after the origin moved forward by TickMs while the clock stays
\* at c: one that is no longer newer than c - past is long past and kept at 0
Slide(t, c, past) == IF t - TickMs > c - past THEN t - TickMs ELSE 0

\* an expiry time after the origin moved forward by TickMs while the clock
\* stays at c; 0 stands for no expiry, and an expiry that lies in the past
\* stays in the past, at 1
SlideExpiry(t, c) ==
  IF t = 0 THEN 0 ELSE IF t - TickMs >= c THEN t - TickMs ELSE 1

SlideEntries(d, c) == [k \in DOMAIN d |-> [d[k] EXCEPT !.t = SlideExpiry(@, c)]]

\* the clock advances by TickMs: the reading stays at Horizon and every stored
\* time moves back by TickMs
Tick ==
  /\ ret' = NoRet
  /\ now' = now
  /\ requests' = [i \in DOMAIN requests |->
                    [requests[i] EXCEPT !.timestamp = Slide(@, now, WindowMs)]]
  /\ wakeAt' = [p \in Callers |-> Slide(wakeAt[p], now, 0)]
  /\ history' = LET kept == SelectSeq(history, LAMBDA h :
                                   h.timestamp - TickMs > now - WindowMs)
                IN  [i \in DOMAIN kept |->
                       [kept[i] EXCEPT !.timestamp = @ - TickMs]]
  /\ data' = SlideEntries(data, now)
  /\ live' = SlideEntries(live, now)
  /\ client' = LET kept == SelectSeq(client.sent, LAMBDA t :
                                     t - TickMs > now - WindowMs)
               IN  [client EXCEPT !.sent = [i \in DOMAIN kept |-> kept[i] - TickMs]]
  /\ UNCHANGED <<config, pc, closed, cacheConfig, stats, pending, found,
                 audit, remote, callsLeft, heap, account>>

RateNext ==
  \/ CanMakeRequest
  \/ \E count \in 1..MaxCount : RecordRequest(count)
  \/ \E p \in Callers : WaitForAvailability(p)
  \/ \E p \in Callers : TimerFires(p)
  \/ GetStatus
  \/ Close
  \/ Tick

RateSpec == RateInit /\ [][RateNext]_vars

CacheInit ==
  /\ CacheInitWith([enabled : {TRUE}, ttl : {40}, maxSize : {2}])
  /\ InitWith({[requestsPerMinute |-> 120, retryDelay |-> 1000,
                maxRetryDelay |-> 10000]}, Horizon)

\* every operation of ApiCache but setWithStrategy, whose TTLs of 300 s and
\* more lie far beyond the clock steps of this specification
CacheNext ==
  \/ \E k \in Keys : Get(k)
  \/ \E k \in Keys, v \in Values, ttl \in TtlArgs : Set(k, v, ttl)
  \/ \E k \in Keys : Del(k)
  \/ Clear
  \/ \E k \in Keys : Has(k)
  \/ GetStats
  \/ \E k \in Keys : GetTTL(k)
  \/ \E k \in Keys, ttl \in TtlArgs : UpdateTTL(k, ttl)
  \/ \E pat \in Patterns : InvalidatePattern(pat)
  \/ \E k \in Keys, ttl \in TtlArgs : GetOrSet(k, ttl)
  \/ \E f \in Calls, v \in Values : FetchResolves(f, v)
  \/ \E f \in Calls : FetchRejects(f)
  \/ Sweep
  \/ Tick

CacheSpec == CacheInit /\ [][CacheNext]_vars

\* a cache constructed with enabled = false, under every operation
DisabledInit ==
  /\ CacheInitWith([enabled : {FALSE}, ttl : {0, 40}, maxSize : {1, 3}])
  /\ InitWith({[requestsPerMinute |-> 120, retryDelay |-> 1000,
                maxRetryDelay |-> 10000]}, Horizon)

DisabledNext ==
  \/ CacheNext
  \/ \E k \in Keys, v \in Values, strategy \in Strategies :
        SetWithStrategy(k, v, strategy)

DisabledSpec == DisabledInit /\ [][DisabledNext]_vars

\* getBackoffDelay is a pure function of the configuration and its jitter
BackoffInit ==
  /\ CacheInitWith({DefaultCacheConfig})
  /\ InitWith([requestsPerMinute : {MaxRpm},
               retryDelay : {0, 1000, 3000},
               maxRetryDelay : {10000, 40000}], Horizon)

BackoffNext ==
  \E attempt \in 1..MaxAttempt, jitterPct \in 0..9 : GetBackoffDelay(attempt, jitterPct)

BackoffSpec == BackoffInit /\ [][BackoffNext]_vars

\* The operations that push records or advance time.  The event loop runs
\* every timer that is due and the clock keeps advancing.
RateLiveNext ==
  \/ RecordRequest(MaxCount)
  \/ \E p \in Callers : WaitForAvailability(p)
  \/ \E p \in Callers : TimerFires(p)
  \/ Close
  \/ Tick

\* the state after construction, with a retry delay capped above one tick
RateLiveInit ==
  /\ CacheInitWith({DefaultCacheConfig})
  /\ InitWith([requestsPerMinute : 0..MaxRpm,
               retryDelay : {1000},
               maxRetryDelay : {40000}], Horizon)

RateLiveSpec ==
  /\ RateLiveInit
  /\ [][RateLiveNext]_vars
  /\ WF_vars(Tick)
  /\ \A p \in Callers : WF_vars(TimerFires(p))

\* an enabled cache of a single entry, where an insert meets the cap
FullInit ==
  /\ CacheInitWith([enabled : {TRUE}, ttl : {40}, maxSize : {1}])
  /\ InitWith({[requestsPerMinute |-> 120, retryDelay |-> 1000,
                maxRetryDelay |-> 10000]}, Horizon)

FullSpec == FullInit /\ [][CacheNext]_vars

\* generateKey alone, a pure function: one call, whose arguments are drawn
\* at the start
KeyInit ==
  /\ CacheInitWith({DefaultCacheConfig})
  /\ LimiterInitWith({[requestsPerMinute |-> 120, retryDelay |-> 1000,
                       maxRetryDelay |-> 10000]}, Horizon)
  /\ ret \in KeyCalls

KeyNext == GenerateKey

KeySpec == KeyInit /\ [][KeyNext]_vars

\* calculateOptimizationScore alone, a pure function: one call, whose
\* argument is drawn at the start
ScoreInit ==
  /\ CacheInitWith({DefaultCacheConfig})
  /\ LimiterInitWith({[requestsPerMinute |-> 120, retryDelay |-> 1000,
                       maxRetryDelay |-> 10000]}, Horizon)
  /\ ret \in ScoreCalls

ScoreNext == CalculateOptimizationScore

ScoreSpec == ScoreInit /\ [][ScoreNext]_vars

\* one execute call against a remote whose reads may fail, or with no API
\* client at all, on a cache of one entry that another caller may fill
AuditInit ==
  /\ CacheOnlyInitWith([enabled : BOOLEAN, ttl : {300}, maxSize : {1}])
  /\ InitWith({[requestsPerMinute |-> 120, retryDelay |-> 1000,
                maxRetryDelay |-> 10000]}, Horizon)
  /\ AuditInitWith({"any", "absent"}, {1})

AuditNext ==
  \/ \E params \in AuditParams : Execute(params)
  \/ \E r \in Reads, outcome \in {"fulfilled", "rejected"},
        v \in {"ok", "nameless", "none"} : Settle(r, outcome, v)
  \/ \E outcome \in {"fulfilled", "rejected"} : SubReadSettles(outcome)
  \/ Set(<<"u", "1">>, "a", 0)

AuditSpec == AuditInit /\ [][AuditNext]_vars

\* successive execute calls against a remote whose reads succeed, while
\* time passes
RepeatInit ==
  /\ CacheOnlyInitWith([enabled : {TRUE}, ttl : {300}, maxSize : {3}])
  /\ InitWith({[requestsPerMinute |-> 120, retryDelay |-> 1000,
                maxRetryDelay |-> 10000]}, Horizon)
  /\ AuditInitWith({"up"}, {MaxExecutes})

RepeatNext ==
  \/ \E params \in AuditParams : Execute(params)
  \/ \E r \in Reads : Settle(r, "fulfilled", "ok")
  \/ SubReadSettles("fulfilled")
  \/ LongTick
  \/ Sweep

RepeatSpec == RepeatInit /\ [][RepeatNext]_vars

\* one execute call on accounts whose numbers of tags, active sequences and
\* forms lie around the thresholds of the recommendations (5, 3 and 2), the
\* eight reads succeeding or failing
ThresholdAccounts ==
  {[tags |-> 5 + d, sequences |-> (3 * (3 + d)) \div 2, forms |-> 2 + d] :
     d \in (0 - Excess)..Excess}

ThresholdInit ==
  /\ CacheOnlyInitWith([enabled : {TRUE}, ttl : {300}, maxSize : {3}])
  /\ InitWith({[requestsPerMinute |-> 120, retryDelay |-> 1000,
                maxRetryDelay |-> 10000]}, Horizon)
  /\ AuditInitFor({"top"}, {1}, ThresholdAccounts)

ThresholdNext ==
  \/ \E params \in AuditParams : Execute(params)
  \/ \E r \in Reads, outcome \in {"fulfilled", "rejected"},
        v \in {"ok", "nameless", "none"} : Settle(r, outcome, v)
  \/ SubReadSettles("fulfilled")

ThresholdSpec == ThresholdInit /\ [][ThresholdNext]_vars

\* one execute call on accounts whose numbers of tags, active sequences and
\* forms lie around the fan-out limits (20, 10 and 10), every read succeeding
LimitAccounts ==
  {[tags |-> TagLimit + d, sequences |-> (3 * (SequenceLimit + d)) \div 2,
    forms |-> FormLimit + d] : d \in (0 - Excess)..Excess}

LimitInit ==
  /\ CacheOnlyInitWith([enabled : {TRUE}, ttl : {300}, maxSize : {3}])
  /\ InitWith({[requestsPerMinute |-> 120, retryDelay |-> 1000,
                maxRetryDelay |-> 10000]}, Horizon)
  /\ AuditInitFor({"up"}, {1}, LimitAccounts)

LimitNext ==
  \/ \E params \in AuditParams : Execute(params)
  \/ \E r \in Reads : Settle(r, "fulfilled", "ok")
  \/ SubReadSettles("fulfilled")

LimitSpec == LimitInit /\ [][LimitNext]_vars

\* callers of waitForAvailability under configurations whose maxRetryDelay is
\* zero, below the empty-window wait, below the window and near it
SpinInit ==
  /\ CacheInitWith({DefaultCacheConfig})
  /\ InitWith([requestsPerMinute : 0..MaxRpm,
               retryDelay : {1000},
               maxRetryDelay : {0, 500, 10000, 40000}], Horizon)

SpinNext ==
  \/ \E p \in Callers : WaitForAvailability(p)
  \/ \E p \in Callers : TimerFires(p)
  \/ Tick

SpinSpec == SpinInit /\ [][SpinNext]_vars

\* kit-api-client.ts:52-66  the request interceptor past its
\* await this.rateLimiter.waitForAvailability(): once the call has returned
\* the config goes back to axios, which issues the network call; while the
\* call sleeps the request stays in the interceptor
TransmitWhileWaiting(p) ==
  client' = [client EXCEPT !.phase[p] = "sent", !.sent = Append(@, now)]
Transmit(p) ==
  client' = IF ret'.op = "admit"
            THEN [client EXCEPT !.phase[p] = "sent", !.sent = Append(@, now)]
            ELSE [client EXCEPT !.phase[p] = "admitting"]

\* makeRequest(method, endpoint, data, params): axiosInstance.request(config)
\* runs the request interceptor
MakeRequest(p) ==
  /\ ~closed
  /\ client.phase[p] = "none"
  /\ pc[p] = "idle"
  /\ WaitBody(p)
  /\ Transmit(p)
  /\ UNCHANGED <<now, config, closed, cvars, audit, remote, callsLeft, heap, account>>

\* the setTimeout of delay() fires inside the request interceptor's
\* waitForAvailability() and the recursive call runs
AdmissionResumes(p) ==
  /\ client.phase[p] = "admitting"
  /\ pc[p] = "sleeping"
  /\ now >= wakeAt[p]
  /\ WaitBody(p)
  /\ Transmit(p)
  /\ UNCHANGED <<now, config, closed, cvars, audit, remote, callsLeft, heap, account>>

\* the network call ends and the response interceptor runs: on a response
\* recordRequest(), on an error handleApiError(error), which throws
ResponseArrives(p, ok) ==
  /\ client.phase[p] = "sent"
  /\ client' = [client EXCEPT !.phase[p] = "none"]
  /\ IF ok
     THEN /\ requests' = PushRecord(requests, now, 1)
          /\ history' = Append(history, Ghost(now, 1, "response"))
          /\ ret' = [op |-> "response", caller |-> p, outcome |-> "resolved"]
     ELSE /\ ret' = [op |-> "response", caller |-> p, outcome |-> "rejected"]
          /\ UNCHANGED <<requests, history>>
  /\ UNCHANGED <<now, config, pc, wakeAt, closed, cvars, audit, remote,
                 callsLeft, heap, account>>

\* a client whose limiter admits up to MaxRpm requests per minute
ClientInit ==
  /\ CacheInitWith({DefaultCacheConfig})
  /\ InitWith([requestsPerMinute : 0..MaxRpm,
               retryDelay : {1000},
               maxRetryDelay : {10000, 40000}], Horizon)

ClientNext ==
  \/ \E p \in Callers : MakeRequest(p)
  \/ \E p \in Callers : AdmissionResumes(p)
  \/ \E p \in Callers, ok \in BOOLEAN : ResponseArrives(p, ok)
  \/ GetStatus
  \/ Tick

ClientSpec == ClientInit /\ [][ClientNext]_vars

\* the Kit API answers every read again
Recover ==
  /\ remote = "top"
  /\ remote' = "up"
  /\ ret' = NoRet
  /\ UNCHANGED <<now, lvars, cvars, audit, callsLeft, heap, account, client>>

\* the reads that may fail while the Kit API is impaired
FailingReads == {"tags"}

\* successive execute calls against a remote some of whose reads fail until
\* it recovers, on a cache of one entry that another caller may fill, while
\* time passes
DegradedInit ==
  /\ CacheOnlyInitWith([enabled : {TRUE}, ttl : {300}, maxSize : {1}])
  /\ InitWith({[requestsPerMinute |-> 120, retryDelay |-> 1000,
                maxRetryDelay |-> 10000]}, Horizon)
  /\ AuditInitWith({"top"}, {MaxExecutes})

DegradedNext ==
  \/ \E params \in AuditParams : Execute(params)
  \/ \E r \in Reads : Settle(r, "fulfilled", "ok")
  \/ \E r \in FailingReads : Settle(r, "rejected", "none")
  \/ SubReadSettles("fulfilled")
  \/ Recover
  \/ LongTick
  \/ Set(<<"u", "1">>, "a", 0)

DegradedSpec == DegradedInit /\ [][DegradedNext]_vars

\* ------------------------------------------------------------------ claims

\* the records of the last 60 s that waitForAvailability pushed
Admissions == SelectSeq(history, LAMBDA h : h.via = "wait")

\* C1: however the callers of waitForAvailability interleave, the admissions
\* whose timestamps lie in a rolling window of 60000 ms (the half-open window
\* (now - 60000, now], for every instant now the clock visits) number at most
\* requestsPerMinute.
C1_RollingWindowBound == Len(Admissions) <= config.requestsPerMinute

\* C1 witness: the limit is reached through waitForAvailability alone and a
\* concurrent caller has been refused and is waiting.
C1_Witness ==
  /\ config.requestsPerMinute = MaxRpm
  /\ Len(Admissions) = config.requestsPerMinute
  /\ Len(history) = Len(Admissions)
  /\ \E p \in Callers : pc[p] = "sleeping"

\* C2: canMakeRequest() returns true exactly when the counts of the records
\* newer than now - 60000 sum to less than requestsPerMinute.
C2_CanMakeRequestExact ==
  ret.op = "canMakeRequest" =>
    (ret.value <=> SumCounts(history) < config.requestsPerMinute)

\* C2 witness: canMakeRequest() is refused on a full window that holds a
\* request recorded at an earlier clock reading.
C2_Witness ==
  /\ ret.op = "canMakeRequest"
  /\ ret.value = FALSE
  /\ config.requestsPerMinute > 0
  /\ SumCounts(history) >= config.requestsPerMinute
  /\ \E i \in DOMAIN history : history[i].timestamp < now

\* C3: a step in which waitForAvailability records its request and returns
\* starts in a state where the in-window counts sum to less than
\* requestsPerMinute, on the first try and after every sleep.
C3_AdmitOnlyUnderLimit ==
  [][ret'.op = "admit" => SumCounts(history) < config.requestsPerMinute]_vars

\* C3 witness: a caller is admitted by the retry that follows its sleep,
\* next to records pushed by recordRequest.
C3_Witness ==
  /\ ret.op = "admit"
  /\ ret.afterSleep
  /\ ~closed
  /\ Len(history) > Len(Admissions)

\* C4 as stated: every call of waitForAvailability eventually admits.
C4_Original == \A p \in Callers : (pc[p] = "sleeping") ~> (pc[p] = "idle")

\* C4 amended: with requestsPerMinute > 0, once no further call is issued,
\* every caller still waiting is eventually admitted.
C4_EventuallyAdmits ==
  \A p \in Callers :
    (config.requestsPerMinute > 0 /\ closed /\ pc[p] = "sleeping") ~> (pc[p] = "idle")

\* C4 witness: after the calls stopped, a waiting caller is admitted by a retry.
C4_Witness ==
  /\ closed
  /\ config.requestsPerMinute > 0
  /\ ret.op = "admit"
  /\ ret.afterSleep

\* C5: with requestsPerMinute = 0, canMakeRequest() returns false whatever the
\* window holds and whatever the clock shows.
C5_ZeroLimitAlwaysRefuses ==
  (config.requestsPerMinute = 0 /\ ret.op = "canMakeRequest") => ret.value = FALSE

\* C5 witness: the limit is 0 and canMakeRequest() ran on an empty window.
C5_Witness ==
  /\ config.requestsPerMinute = 0
  /\ ret.op = "canMakeRequest"
  /\ requests = <<>>
  /\ ret.value = FALSE

\* retryDelay * 2^(attempt-1) plus jitterPct percent of it
RawBackoff(attempt, jitterPct) ==
  (config.retryDelay * Pow2(attempt - 1) * (100 + jitterPct)) \div 100

\* C6: getBackoffDelay(attempt) is the smaller of retryDelay * 2^(attempt-1)
\* plus jitter and maxRetryDelay, so never above maxRetryDelay, and without
\* jitter a later attempt never gets a shorter delay than an earlier one.
C6_BackoffClampedMonotone ==
  ret.op = "getBackoffDelay" =>
    /\ ret.value <= config.maxRetryDelay
    /\ ret.value <= RawBackoff(ret.attempt, ret.jitterPct)
    /\ ret.value \in {config.maxRetryDelay, RawBackoff(ret.attempt, ret.jitterPct)}
    /\ \A i \in DOMAIN ret.prev :
         (ret.jitterPct = 0 /\ ret.prev[i].jitterPct = 0
            /\ ret.prev[i].attempt <= ret.attempt)
         => ret.prev[i].value <= ret.value

\* C6 witness: a jittered delay is cut to maxRetryDelay right after an
\* earlier attempt that was not.
C6_Witness ==
  /\ ret.op = "getBackoffDelay"
  /\ ret.jitterPct > 0
  /\ RawBackoff(ret.attempt, ret.jitterPct) > config.maxRetryDelay
  /\ ret.value = config.maxRetryDelay
  /\ ret.prev # <<>>
  /\ ret.prev[1].attempt < ret.attempt
  /\ ret.prev[1].value < config.maxRetryDelay

\* the timestamps of the records of the last 60 s
HistoryTimes == {history[i].timestamp : i \in DOMAIN history}

\* C7: getStatus() reports the in-window sum, the remaining requests floored
\* at 0, and as resetTime the oldest in-window timestamp + 60000, or the
\* current time when the window is empty.
C7_GetStatusExact ==
  ret.op = "getStatus" =>
    /\ ret.requestsInLastMinute = SumCounts(history)
    /\ ret.remainingRequests >= 0
    /\ ret.remainingRequests =
         (IF SumCounts(history) >= config.requestsPerMinute THEN 0
          ELSE config.requestsPerMinute - SumCounts(history))
    /\ history = <<>> => ret.resetTime = now
    /\ history # <<>> =>
         /\ ret.resetTime - WindowMs \in HistoryTimes
         /\ \A t \in HistoryTimes : ret.resetTime - WindowMs <= t

\* C7 witness: getStatus() runs after recordRequest pushed the sum above the
\* limit and an expired record was purged.
C7_Witness ==
  /\ ret.op = "getStatus"
  /\ SumCounts(history) > config.requestsPerMinute
  /\ config.requestsPerMinute > 0
  /\ ret.remainingRequests = 0
  /\ ret.resetTime > now
  /\ ret.resetTime < now + WindowMs

C9_DisabledIsNoOp ==
  ~cacheConfig.enabled =>
    /\ data = <<>>
    /\ stats = [hits |-> 0, misses |-> 0]
    /\ ret.op \in {"set", "setWithStrategy"} => ret.outcome = "false"
    /\ ret.op = "get" => ret.value = Undefined
    /\ ret.op = "getTTL" => ~ret.defined
    /\ ret.op \in {"has", "updateTTL"} => ret.value = FALSE
    /\ ret.op = "del" => ret.value = 0
    /\ ret.op = "getOrSet" => ret.outcome = "false"

\* C9 witness: setWithStrategy on the disabled cache returned false.
C9_Witness ==
  /\ ~cacheConfig.enabled
  /\ ret.op = "setWithStrategy"
  /\ ret.outcome = "false"
  /\ data = <<>>

\* C10: on an enabled cache hits and misses count the get calls (direct or
\* inside getOrSet) since construction or the last clear that met an
\* unexpired entry and that met none, and getStats().hitRate is
\* 100 * hits / (hits + misses) rounded to two decimals (here in hundredths
\* of a percent), 0 without requests, 50.00 after one miss and one hit.
C10_StatsExact ==
  cacheConfig.enabled =>
    /\ stats = found
    /\ ret.op = "getStats" =>
         LET total == found.hits + found.misses
             off == ret.hitRate * total - 10000 * found.hits
         IN  /\ ret.hits = found.hits
             /\ ret.misses = found.misses
             /\ total = 0 => ret.hitRate = 0
             /\ total > 0 => (2 * off <= total /\ -2 * off <= total)
             /\ (found.hits = 1 /\ found.misses = 1) => ret.hitRate = 5000

\* C10 witness: getStats() after two hits and one miss reports 66.67.
C10_Witness ==
  /\ cacheConfig.enabled
  /\ ret.op = "getStats"
  /\ found.hits = 2
  /\ found.misses = 1
  /\ ret.hitRate = 6667

\* the params objects with the same names as p
SameNames(p) ==
  {q \in ParamObjects : {e.name : e \in Range(q)} = {e.name : e \in Range(p)}}

\* C11 as stated: a reordering of the entries keeps the key, no params gives
\* the prefix, and the same names with a different value for some name give
\* a different key.
C11_Original ==
  ret.op = "generateKey" =>
    /\ \A q \in ParamObjects :
         Range(q) = Range(ret.params) => GenerateKeyOf(ret.prefix, q) = ret.value
    /\ ret.params = <<>> => ret.value = ret.prefix
    /\ \A q \in SameNames(ret.params) :
         Range(q) # Range(ret.params) => GenerateKeyOf(ret.prefix, q) # ret.value

\* C11 amended: a reordering of the entries keeps the key, no params gives
\* the prefix, and the same names with a value of a different JSON text for
\* some name give a different key.
C11_KeyStableAndDistinct ==
  ret.op = "generateKey" =>
    /\ \A q \in ParamObjects :
         Range(q) = Range(ret.params) => GenerateKeyOf(ret.prefix, q) = ret.value
    /\ ret.params = <<>> => ret.value = ret.prefix
    /\ \A q \in SameNames(ret.params) :
         (\E e \in Range(ret.params) :
            JsonStringify(Lookup(q, e.name)) # JsonStringify(e.value))
         => GenerateKeyOf(ret.prefix, q) # ret.value

\* C11 witness: generateKey("p", {b: 12, a: "12"}) gives p:a:"12"|b:12.
C11_Witness ==
  /\ ret.op = "generateKey"
  /\ ret.params = <<[name |-> <<"b">>, value |-> Num(12)],
                    [name |-> <<"a">>, value |-> Str(<<"1", "2">>)]>>
  /\ ret.value = <<"p", ":", "a", ":", "\"", "1", "2", "\"", "|",
                   "b", ":", "1", "2">>

\* key k is x, then s, then y, for some strings x and y
Contains(k, s) ==
  \E i \in 0..Len(k), j \in 1..(Len(k) + 1) :
    i < j /\ k = SubSeq(k, 1, i) \o s \o SubSeq(k, j, Len(k))

\* C12: a step of invalidatePattern(s) removes exactly the stored keys that
\* contain s, returns how many they were, and leaves every other entry, with
\* its value and expiry, and the hit and miss counters as they were.
C12_InvalidateExactlyMatching ==
  [][ret'.op = "invalidatePattern" =>
       /\ DOMAIN data' = {k \in DOMAIN data : ~Contains(k, ret'.pattern)}
       /\ \A k \in DOMAIN data' : data'[k] = data[k]
       /\ ret'.value = Cardinality({k \in DOMAIN data : Contains(k, ret'.pattern)})
       /\ stats' = stats]_vars

\* C12 witness: invalidatePattern("u") has just deleted one key and left the
\* other, after some get was counted.
C12_Witness ==
  /\ ret.op = "invalidatePattern"
  /\ ret.pattern = <<"u">>
  /\ ret.value = 1
  /\ DOMAIN data = {<<"o", "1">>}
  /\ stats.hits + stats.misses > 0

\* C13: a getOrSet(key, supplier, ttl) that finds an unexpired value returns
\* it without invoking the supplier; one that finds none invokes the supplier
\* once, and when the supplier has resolved it stores the result under key
\* and returns it, so that a get(key) that follows returns the same value.
C13_GetOrSetStoresAndReturns ==
  [][/\ (ret'.op = "getOrSet" /\ ~ret'.fetched) =>
          /\ pending' = pending
          /\ ret'.value = GetValue(ret'.key)
     /\ (ret'.op = "getOrSet" /\ ret'.fetched) =>
          /\ BagCardinality(pending') = BagCardinality(pending) - 1
          /\ ret'.outcome # "throws"
          /\ cacheConfig'.enabled
          /\ NcPresent(data', ret'.key, now')
          /\ data'[ret'.key].v = ret'.value]_vars

\* C14: the cache never holds more than maxSize entries, and a set (direct
\* or at the end of getOrSet) that finds maxSize entries stored is always
\* rejected: it raises the error of the full store and changes no entry.
C14_CapNeverExceeded ==
  [][/\ Cardinality(DOMAIN data') <= cacheConfig'.maxSize
     /\ ((ret'.op = "set" \/ (ret'.op = "getOrSet" /\ ret'.fetched))
         /\ Cardinality(DOMAIN data) >= cacheConfig.maxSize)
        => (data' = data /\ ret'.outcome = "throws")]_vars

\* C14 witness: a set on a cache that holds maxSize entries was rejected.
C14_Witness ==
  /\ ret.op = "set"
  /\ ret.outcome = "throws"
  /\ Cardinality(DOMAIN data) = cacheConfig.maxSize
  /\ ret.key \notin DOMAIN data

\* C20: optimization_score is min(100, 50 + 10 if the name contains "welcome"
\* + 10 if it contains "nurture" + 20 if not held + 10 if repeat-enabled), and
\* a non-held, non-repeat sequence named "Welcome Series" scores 80.
C20_OptimizationScore ==
  (ret.op = "calculateOptimizationScore" /\ ret.outcome = "returns") =>
    /\ ret.value =
         Min(100, 50 + (IF Contains(ret.sequence.name, Welcome) THEN 10 ELSE 0)
                     + (IF Contains(ret.sequence.name, Nurture) THEN 10 ELSE 0)
                     + (IF ~ret.sequence.hold THEN 20 ELSE 0)
                     + (IF ret.sequence.repeat THEN 10 ELSE 0))
    /\ (ret.sequence.name = WelcomeSeries /\ ~ret.sequence.hold
        /\ ~ret.sequence.repeat) => ret.value = 80


\* C15: an execute call with include_performance false or absent that finds an
\* unexpired report in the cache under generateKey('account_audit', params)
\* returns that report and calls no method of the API client; in particular
\* an execute call without include_performance that directly follows one that
\* returned a freshly built report for the same parameters returns that same
\* report without a call.
C15_CachedReportServed ==
  [][\A params \in AuditParams :
       LET cacheKey == GenerateKeyOf(AuditPrefix, params) IN
       Execute(params) /\ ~WantsPerformance(params) =>
         /\ NcPresent(data, cacheKey, now) =>
              /\ ret'.op = "execute"
              /\ ret'.outcome = "resolved" /\ ret'.cached
              /\ ret'.value = data[cacheKey].v
              /\ ret'.apiCalls = 0
              /\ audit' = NoAudit
         /\ (ret.op = "execute" /\ ret.outcome = "resolved" /\ ~ret.cached
             /\ ret.key = cacheKey) =>
              /\ ret'.op = "execute"
              /\ ret'.outcome = "resolved" /\ ret'.cached
              /\ ret'.value = ret.value
              /\ ret'.apiCalls = 0]_vars

\* a second execute() got the report the first one built, without a call
C15_Witness ==
  /\ ret.op = "execute" /\ ret.outcome = "resolved" /\ ret.cached
  /\ ret.key = AuditPrefix
  /\ ret.apiCalls = 0
  /\ ret.value \in DOMAIN heap
  /\ callsLeft = MaxExecutes - 2
  /\ stats.hits = 1 /\ stats.misses = 1

\* an execute call that issued its eight reads has returned or thrown, and the
\* reads that succeeded returned well-formed data
FanOutEnded ==
  /\ ret.op = "execute" /\ "reads" \in DOMAIN ret
  /\ \A r \in Reads : ret.values[r] # "nameless"

ReportSections ==
  {"account_summary", "segmentation_analysis", "automation_overview",
   "lead_capture_analysis", "custom_fields_usage", "strategic_recommendations"}

\* C16: whichever of the eight top-level reads reject, all eight included,
\* execute resolves with a report that has all six sections, the failed reads
\* contributing zero or empty values.
C16_ResolvesWhateverRejects ==
  FanOutEnded =>
    /\ ret.outcome = "resolved"
    /\ ReportSections \subseteq DOMAIN heap[ret.value]
    /\ LET report == heap[ret.value] IN
       /\ ret.reads["subscribers"] = "rejected" =>
            report.account_summary.total_subscribers = 0
       /\ ret.reads["growthStats"] = "rejected" =>
            report.account_summary.growth_rate_30d = 0
       /\ ret.reads["tags"] = "rejected" =>
            /\ report.segmentation_analysis.total_tags = 0
            /\ report.segmentation_analysis.tag_usage_distribution = <<>>
       /\ ret.reads["sequences"] = "rejected" =>
            /\ report.automation_overview.total_sequences = 0
            /\ report.automation_overview.automation_performance = <<>>
       /\ ret.reads["forms"] = "rejected" =>
            /\ report.lead_capture_analysis.total_forms = 0
            /\ report.lead_capture_analysis.conversion_rates = <<>>
       /\ ret.reads["customFields"] = "rejected" =>
            report.custom_fields_usage = <<>>

\* C17: every execute call that builds a report from a fresh fan-out, on an
\* enabled cache and whatever include_performance was, stores the report under
\* generateKey('account_audit', params) with an expiry 900 s ahead and returns it.
C17_FreshReportStored ==
  FanOutEnded /\ cacheConfig.enabled =>
    /\ ret.outcome = "resolved"
    /\ ret.value \in DOMAIN heap
    /\ NcPresent(data, ret.key, now)
    /\ data[ret.key].v = ret.value
    /\ data[ret.key].t = now + 900 * 1000

\* C18: while one of the eight top-level reads is unsettled, execute has
\* issued no per-tag, per-sequence or per-form read and built no section; it
\* runs a per-item read, returns or throws after the fan-out only once all
\* eight have settled, however early one of them was fulfilled or rejected.
C18_JoinBarrier ==
  /\ (audit.pc # "idle" /\ \E r \in Reads : audit.status[r] = "pending") =>
       /\ audit.pc = "reading"
       /\ audit.apiCalls = Cardinality(Reads)
       /\ audit.usage = <<>> /\ audit.perf = <<>> /\ audit.conv = <<>>
  /\ audit.pc \in {"tagRead", "seqRead", "formRead"} =>
       \A r \in Reads : audit.status[r] # "pending"
  /\ (ret.op = "execute" /\ "reads" \in DOMAIN ret) =>
       \A r \in Reads : ret.reads[r] # "pending"

\* the per-tag read is under way after the account read was rejected and the
\* other seven were fulfilled
C18_Witness ==
  /\ audit.pc = "tagRead"
  /\ audit.apiCalls = Cardinality(Reads) + 1
  /\ audit.status["account"] = "rejected"
  /\ \A r \in Reads \ {"account"} : audit.status[r] = "fulfilled"

\* C19: once the eight reads have been issued execute resolves with a report,
\* whatever the reads return and whatever the state of the cache; it rejects
\* only when no read was attempted, and then with the one wrapped error, with
\* no report returned and none in the cache.
C19_RejectsOnlyBeforeFanOut ==
  ret.op = "execute" =>
    /\ "reads" \in DOMAIN ret =>
         ret.outcome = "resolved" /\ ret.value \in DOMAIN heap
    /\ ret.outcome = "rejected" =>
         /\ ret.apiCalls = 0
         /\ ret.message[1] = "Failed to generate account audit"
         /\ "value" \notin DOMAIN ret
         /\ \A k \in DOMAIN data : data[k].v \notin DOMAIN heap

\* the report a call of execute has just built and returned
FreshReport == ret.op = "execute" /\ ret.outcome = "resolved" /\ ~ret.cached

\* C21: in every report execute returns, the re-engagement recommendation is
\* in strategic_recommendations exactly when account_summary.list_health_score
\* of that report is below 70.
C21_ReEngagementIffUnhealthy ==
  FreshReport =>
    LET report == heap[ret.value] IN
    ("re-engagement" \in Range(report.strategic_recommendations))
      <=> (report.account_summary.list_health_score < 70)

\* how many items of a list the call fetched: none when the read failed
Fetched(r, n) == IF ret.settledAs[r] = "rejected" THEN 0 ELSE n

\* the sequences not on hold among the first n the account lists
ActiveAmong(n) == Cardinality({i \in 1..n : i % 3 # 2})

NthActive(k) == IF k % 2 = 1 THEN (3 * (k - 1)) \div 2 + 1 ELSE (3 * k) \div 2

\* the per-item reads of one kind a call issued, in the order of issue
CallsOf(read) == SelectSeq(ret.calls, LAMBDA c : c.read = read)

\* C23: whatever the lengths of the fetched lists, one execute call issues at
\* most 20 per-tag, 10 per-sequence and 10 per-form reads, and they go to the
\* first 20 tags, the first 10 sequences not on hold and the first 10 forms,
\* in the order in which the remote listed them.
C23_BoundedFanOutInListOrder ==
  (ret.op = "execute" /\ "calls" \in DOMAIN ret
   /\ \A r \in Reads : ret.settledAs[r] = "ok") =>
    /\ Len(CallsOf("tagRead")) <= 20
    /\ Len(CallsOf("seqRead")) <= 10
    /\ Len(CallsOf("formRead")) <= 10
    /\ CallsOf("tagRead") =
         [i \in 1..Min(20, account.tags) |-> [read |-> "tagRead", id |-> ItemId(i)]]
    /\ CallsOf("seqRead") =
         [k \in 1..Min(10, ActiveAmong(account.sequences)) |->
            [read |-> "seqRead", id |-> ItemId(NthActive(k))]]
    /\ CallsOf("formRead") =
         [i \in 1..Min(10, account.forms) |-> [read |-> "formRead", id |-> ItemId(i)]]
    /\ ret.apiCalls = Cardinality(Reads) + Len(ret.calls)

\* a call on an account of 21 tags, 11 active sequences and 11 forms ended
\* after 20, 10 and 10 per-item reads
C23_Witness ==
  /\ FreshReport
  /\ account.tags = 21 /\ ActiveAmong(account.sequences) = 11
  /\ account.forms = 11
  /\ Len(CallsOf("tagRead")) = 20
  /\ Len(CallsOf("seqRead")) = 10
  /\ Len(CallsOf("formRead")) = 10
  /\ ret.apiCalls = 48

\* the ids of the per-item reads of one kind that were fulfilled, in the
\* order of issue
Kept(read) ==
  LET kept == SelectSeq(CallsOf(read), LAMBDA c : c \notin Range(ret.lost))
  IN  [k \in DOMAIN kept |-> kept[k].id]

\* C24: when per-item reads reject, execute still resolves with the report,
\* every item of the first 20 tags, 10 active sequences and 10 forms was
\* queried, and tag_usage_distribution, automation_performance and
\* conversion_rates hold, in list order, exactly the items whose read
\* succeeded.
C24_PerItemFailureIsolated ==
  (FanOutEnded /\ ret.lost # <<>>) =>
    /\ ret.outcome = "resolved"
    /\ LET report == heap[ret.value]
           usage == report.segmentation_analysis.tag_usage_distribution
           perf == report.automation_overview.automation_performance
           conv == report.lead_capture_analysis.conversion_rates
       IN  /\ ReportSections \subseteq DOMAIN report
           /\ [k \in DOMAIN usage |-> usage[k].tag] = Kept("tagRead")
           /\ [k \in DOMAIN perf |-> perf[k].id] = Kept("seqRead")
           /\ [k \in DOMAIN conv |-> conv[k].form_id] = Kept("formRead")
           /\ Len(CallsOf("tagRead")) =
                Min(20, Fetched("tags", account.tags))
           /\ Len(CallsOf("seqRead")) =
                Min(10, Fetched("sequences", ActiveAmong(account.sequences)))
           /\ Len(CallsOf("formRead")) =
                Min(10, Fetched("forms", account.forms))

\* the report that follows from what each read returned or failed with, and
\* from the per-item results in the report r, whatever order the reads
\* completed in
ReportByRead(r) ==
  BuildReport(
    [status |-> [q \in Reads |-> IF ret.settledAs[q] = "rejected"
                                 THEN "rejected" ELSE "fulfilled"],
     value |-> [q \in Reads |-> IF ret.settledAs[q] = "rejected"
                                THEN "none" ELSE ret.settledAs[q]],
     usage |-> r.segmentation_analysis.tag_usage_distribution,
     perf |-> r.automation_overview.automation_performance,
     conv |-> r.lead_capture_analysis.conversion_rates])

\* C25: the report execute returns is a function of the outcomes of the eight
\* reads, each bound to its section by its position in the fan-out: the same
\* outcomes give the same report in every order of completion. While the
\* reads are in flight, the slot of each read holds what that read did and
\* nothing else.
C25_OrderIndependent ==
  /\ audit.pc = "reading" =>
       \A r \in Reads :
         /\ audit.status[r] = IF audit.settledAs[r] \in {"pending", "rejected"}
                              THEN audit.settledAs[r] ELSE "fulfilled"
         /\ audit.value[r] = IF audit.settledAs[r] \in {"pending", "rejected"}
                             THEN "none" ELSE audit.settledAs[r]
  /\ FreshReport => heap[ret.value] = ReportByRead(heap[ret.value])

\* the last read of the fan-out has failed while the first is still pending,
\* and its failure sits in its own slot
C25_Witness ==
  /\ audit.pc = "reading"
  /\ audit.settledAs["customFields"] = "rejected"
  /\ audit.status["customFields"] = "rejected"
  /\ audit.settledAs["tags"] = "ok" /\ audit.status["tags"] = "fulfilled"
  /\ audit.settledAs["account"] = "pending"
  /\ audit.status["account"] = "pending"

\* the wait the claim prescribes: the time until the oldest record of the
\* last 60 s leaves the window, or 1000 ms when there is none, at most
\* maxRetryDelay
PrescribedSleep ==
  Min(IF history # <<>> THEN 60000 - (now - history[1].timestamp) ELSE 1000,
      config.maxRetryDelay)

\* a step in which waitForAvailability does not admit sleeps the prescribed
\* time, and a sleeping caller re-checks only when its timer is due
SleepsAsPrescribed ==
  /\ ret'.op = "sleep" =>
       /\ ret'.ms = PrescribedSleep
       /\ 0 <= ret'.ms /\ ret'.ms <= config.maxRetryDelay
       /\ wakeAt'[ret'.caller] = now + ret'.ms
  /\ \A p \in Callers :
       (pc[p] = "sleeping" /\ ret'.op \in {"sleep", "admit"} /\ ret'.caller = p)
         => wakeAt[p] <= now

\* C26 as stated: for any configuration, a call that cannot admit sleeps the
\* prescribed time before it re-checks, and the sleep is a real one: the
\* retry is not due at once.
C26_Original ==
  [][SleepsAsPrescribed /\ (ret'.op = "sleep" => ret'.ms > 0)]_vars

\* C26 amended: the same for the configurations with maxRetryDelay > 0.
C26_SleepsBeforeRecheck ==
  [][config.maxRetryDelay > 0 =>
       SleepsAsPrescribed /\ (ret'.op = "sleep" => ret'.ms > 0)]_vars

\* C26 witness: a caller is refused and sleeps the time left to the oldest
\* record of the window, which is less than maxRetryDelay.
C26_Witness ==
  /\ ret.op = "sleep"
  /\ pc[ret.caller] = "sleeping"
  /\ history # <<>>
  /\ ret.ms = 60000 - (now - history[1].timestamp)
  /\ ret.ms < config.maxRetryDelay
  /\ wakeAt[ret.caller] = now + ret.ms

\* a request of caller p goes onto the network in this step
Transmitted(p) == client.phase[p] # "sent" /\ client'.phase[p] = "sent"

\* C27: every request the API client transmits has first completed its
\* waitForAvailability: the step that issues the network call is the one in
\* which that call returned, with the admission record appended to the
\* window, and no request is on the network while its admission still waits.
C27_AdmittedBeforeTransmitted ==
  [][/\ \A p \in Callers :
          Transmitted(p) =>
            /\ ret'.op = "admit" /\ ret'.caller = p
            /\ pc'[p] = "idle"
            /\ requests' # <<>>
            /\ requests'[Len(requests')] = [timestamp |-> now, count |-> 1]
            /\ Len(history') = Len(history) + 1
     /\ \A p \in Callers :
          /\ pc'[p] = "sleeping" => client'.phase[p] = "admitting"
          /\ client'.phase[p] = "sent" => pc'[p] = "idle"]_vars

\* C27 witness: a request went onto the network after its admission had slept,
\* while another caller's request is still held back in the interceptor.
C27_Witness ==
  /\ ret.op = "admit" /\ ret.afterSleep
  /\ client.phase[ret.caller] = "sent"
  /\ \E q \in Callers : client.phase[q] = "admitting" /\ pc[q] = "sleeping"

\* C28: each request sent through the API client adds exactly one unit to
\* the limiter's window, whether it succeeds or fails: what getStatus()
\* reports as requestsInLastMinute is the number of requests transmitted
\* during the last 60 seconds.
C28_OneUnitPerRequest ==
  ret.op = "getStatus" => ret.requestsInLastMinute = Len(client.sent)

\* a report that lacks what a failed read would have supplied
Degraded(report) == report.segmentation_analysis.total_tags < account.tags

\* C29: a report built while some of the eight reads failed is cached like a
\* complete one: the call that built it stores it under its key for 900 s
\* and returns it, and while the cache holds it unexpired every execute with
\* the same params and include_performance false or absent returns it from
\* the cache and starts no remote read, whether the remote has recovered or
\* not.
C29_DegradedReportServed ==
  [][/\ (ret'.op = "execute" /\ "reads" \in DOMAIN ret'
         /\ \E r \in Reads : ret'.reads[r] = "rejected") =>
          /\ ret'.outcome = "resolved"
          /\ Degraded(heap'[ret'.value])
          /\ NcPresent(data', ret'.key, now)
          /\ data'[ret'.key] = [v |-> ret'.value, t |-> now + 900 * 1000]
     /\ \A params \in AuditParams :
          LET cacheKey == GenerateKeyOf(AuditPrefix, params) IN
          (/\ Execute(params) /\ ~WantsPerformance(params)
           /\ NcPresent(data, cacheKey, now)
           /\ data[cacheKey].v \in DOMAIN heap
           /\ Degraded(heap[data[cacheKey].v])) =>
             /\ ret'.op = "execute" /\ ret'.outcome = "resolved" /\ ret'.cached
             /\ ret'.value = data[cacheKey].v
             /\ ret'.apiCalls = 0
             /\ audit' = NoAudit]_vars

\* C29 witness: after the remote recovered, and 900 s after a report without
\* tags was stored, execute returned that report from the cache.
C29_Witness ==
  /\ ret.op = "execute" /\ ret.outcome = "resolved" /\ ret.cached
  /\ remote = "up"
  /\ ret.value \in DOMAIN heap
  /\ heap[ret.value].segmentation_analysis.total_tags < account.tags
  /\ data[ret.key].t = now

\* the parameter objects of the declared interface that carry
\* include_performance or detailed_segments, and their keys
DetailedSegments ==
  <<"d", "e", "t", "a", "i", "l", "e", "d", "_", "s", "e", "g", "m", "e",
    "n", "t", "s">>
TypedParams ==
  {q \in UNION {[1..k -> [name : {IncludePerformance, DetailedSegments},
                          value : {JsTrue, JsFalse}]] : k \in 0..2} :
     \A i, j \in DOMAIN q : i # j => q[i].name # q[j].name}
AuditKey(params) == GenerateKeyOf(AuditPrefix, params)

\* no key of a call with include_performance = true is the key of a call
\* without it
PerformanceKeysApart ==
  \A p, q \in TypedParams :
    WantsPerformance(p) /\ ~WantsPerformance(q) => AuditKey(p) # AuditKey(q)

\* the reports the cache was last given under the keys of calls with
\* include_performance = true
PerformanceReports ==
  {live[AuditKey(p)].v : p \in {q \in AuditParams :
                                  WantsPerformance(q) /\ AuditKey(q) \in DOMAIN live}}

\* C30: a report written to the cache by an execute call with
\* include_performance = true is never returned by a later execute call: such
\* a call does not read the cache, and the key a call without
\* include_performance = true reads under differs from every key a call with
\* it writes under.
C30_PerformanceReportNeverServed ==
  [][/\ \A params \in AuditParams :
          Execute(params) /\ WantsPerformance(params) =>
            /\ stats' = stats /\ found' = found
            /\ ret'.op = "execute" => ~ret'.cached
     /\ (ret'.op = "execute" /\ ret'.outcome = "resolved" /\ ret'.cached) =>
          /\ ret'.value \notin PerformanceReports
          /\ \A p \in AuditParams : WantsPerformance(p) => ret'.key # AuditKey(p)
     /\ PerformanceKeysApart]_vars

\* C30 witness: while the cache holds the unexpired report of a call with
\* include_performance = true, a call without it has fetched a report of its
\* own.
C30_Witness ==
  /\ ret.op = "execute" /\ ret.outcome = "resolved" /\ ~ret.cached
  /\ ret.key = AuditPrefix
  /\ \E p \in AuditParams :
       /\ WantsPerformance(p)
       /\ NcPresent(data, AuditKey(p), now)
       /\ data[AuditKey(p)].v \in DOMAIN heap
       /\ data[AuditKey(p)].v # ret.value
=========================================================================
